---- MODULE Spec2Model ----
(***************************************************************************)
(* The claim-workflow engine of langgraph-wf-claim.py: the WorkflowState   *)
(* record, the InMemoryStore, the seven steps of build_claim_workflow with *)
(* their conditional edges, and Engine.start / Engine.resume / Engine._run.*)
(*                                                                         *)
(* Python values that travel through user_input, control_action and the    *)
(* bag are tagged records [t, v]: t is the Python type, v the characters   *)
(* of a str (a tuple of one-character strings), so that norm() is computed *)
(* as lower().strip().  A dict is a function on its keys.                  *)
(*                                                                         *)
(* Values of other types (a dict, an int) carry their type in t; an        *)
(* exception leaving a function is the record [exc].                       *)
(*                                                                         *)
(* In Spec, SpecStore and SpecInputs calls are sequential (one Engine call *)
(* is one step).  now_iso() is a clock that advances by one between calls; *)
(* every read within one call returns the same value.  The data of a       *)
(* resume_command event (the raw arguments, never read back by the engine) *)
(* is left out of the log; the arguments of the latest call are kept in    *)
(* the variable last.                                                      *)
(*                                                                         *)
(* Spec follows one instance in depth; SpecStore follows several instances *)
(* sharing the store over fewer calls, resumed without bag updates;        *)
(* SpecInputs adds user_input values that are not str; SpecRace runs two   *)
(* resume calls on one instance statement by statement, in every           *)
(* interleaving.                                                           *)
(***************************************************************************)
EXTENDS Integers, Sequences, FiniteSets, TLC

(* ---------------------------------------------------------------- bounds *)
\* Number of Engine.start / Engine.resume calls explored (also the largest
\* value now_iso() takes).
MaxCalls == 5
\* Number of instance ids uuid4() can hand out.
MaxInstances == 2
\* Number of calls explored when several instances share the store.
MaxStoreCalls == 3
\* Calls explored when user_input may be a value that is not a str.
MaxInputCalls == 4

(* ---------------------------------------------------------- Python values *)
None == [t |-> "NoneType", v |-> <<>>]
Str(cs) == [t |-> "str", v |-> cs]

\* Optional[str] fields that only ever hold engine-written text (last_node,
\* prompt, result) and Optional timestamps use these for Python's None.
NoText == "<None>"
NoTime == 0

\* A dict with one entry, as json.loads returns it: v is <<key, value>>.
DictValue(k, val) == [t |-> "dict", v |-> <<k, val>>]

\* A non-zero int, v holding its digits.
IntValue(digits) == [t |-> "int", v |-> <<digits>>]

isinstance_str(x) == x.t = "str"

\* bool(x) for the values of the model: None, "" and {} are falsy.
truthy(x) == x.t # "NoneType" /\ Len(x.v) > 0

\* hash(x) succeeds: a dict is unhashable.
hashable(x) == x.t # "dict"

\* An exception leaving a function, in place of its return value.
Raise(type) == [exc |-> type]
is_exc(x) == "exc" \in DOMAIN x

UpperCase == <<"A", "B", "C", "D", "E", "F", "G", "H", "I", "J", "K", "L", "M",
               "N", "O", "P", "Q", "R", "S", "T", "U", "V", "W", "X", "Y", "Z">>
LowerCase == <<"a", "b", "c", "d", "e", "f", "g", "h", "i", "j", "k", "l", "m",
               "n", "o", "p", "q", "r", "s", "t", "u", "v", "w", "x", "y", "z">>

ToLower == [c \in {UpperCase[i] : i \in DOMAIN UpperCase} |->
               LowerCase[CHOOSE i \in DOMAIN UpperCase : UpperCase[i] = c]]

lower_char(c) == IF c \in DOMAIN ToLower THEN ToLower[c] ELSE c

Whitespace == {" ", "\t", "\n"}

\* str.lower()
lower(cs) == [i \in 1..Len(cs) |-> lower_char(cs[i])]

RECURSIVE lstrip(_)
lstrip(cs) == IF cs # <<>> /\ Head(cs) \in Whitespace THEN lstrip(Tail(cs)) ELSE cs

RECURSIVE rstrip(_)
rstrip(cs) == IF cs # <<>> /\ cs[Len(cs)] \in Whitespace
                THEN rstrip(SubSeq(cs, 1, Len(cs) - 1)) ELSE cs

\* str.strip()
strip(cs) == rstrip(lstrip(cs))

\* norm(s): s.lower().strip() if isinstance(s, str) else s
norm(s) == IF isinstance_str(s) THEN Str(strip(lower(s.v))) ELSE s

(* ------------------------------------------------------------ vocabulary *)
YES == Str(<<"y", "e", "s">>)
NO == Str(<<"n", "o">>)
CANCEL == Str(<<"c", "a", "n", "c", "e", "l">>)
HOLD == Str(<<"h", "o", "l", "d">>)
SUPPRESS == Str(<<"s", "u", "p", "p", "r", "e", "s", "s">>)
RESUME == Str(<<"r", "e", "s", "u", "m", "e">>)
ABORT == Str(<<"a", "b", "o", "r", "t">>)

\* Inputs that differ from a vocabulary word by case and surrounding blanks.
CANCEL_RAW == Str(<<" ", "C", "a", "n", "c", "e", "l">>)
ABORT_RAW == Str(<<"A", "B", "O", "R", "T", " ">>)
\* A free-text claim description (in no step's vocabulary).
CLAIM_TEXT == Str(<<"l", "o", "s", "t">>)
EMPTY == Str(<<>>)

\* Node names.
VALIDATE_REQUEST == "Validate Request"
GATHER_CLAIM_INFO == "Gather Claim Info"
IDENTIFY_AND_DECIDE == "Identify Accounts & Process Decision"
CANCEL_CWD_REQUEST == "Cancel CWD Request"
HOLD_REQUEST == "Hold Request"
APPLY_TEMP_SUPPRESSION == "Apply Temporary Suppression"
FULFILL_AND_DETECT == "Fulfill Case and Detect"
END == "__end__"

(* ------------------------------------------------------------ input sets *)
UserInputs == {None, YES, NO, CANCEL_RAW, HOLD, SUPPRESS, CLAIM_TEXT}
\* ui.py passes the dict parsed from its "Updates (JSON)" field as user_input.
UI_UPDATES == DictValue("validate", "yes")
\* Values that are not str: the dict of ui.py and a number.
NonStrInputs == {UI_UPDATES, IntValue("7")}
ControlActions == {None, RESUME, ABORT_RAW}
\* A dict is a function whose domain is the set of its keys; {} is <<>>.
EmptyDict == <<>>
Dict1(k, val) == [x \in {k} |-> val]
BagUpdates == {EmptyDict, Dict1("claim_details", None)}
InitialBags == {EmptyDict, Dict1("claim_details", CLAIM_TEXT), Dict1("claim_details", EMPTY)}
Customers == {"C1", "C2"}
Users == {"user_a"}
Actors == {"user_b"}
InstanceIds == 1..MaxInstances

\* dict.get(k) with the default None
get(d, k) == IF k \in DOMAIN d THEN d[k] ELSE None

\* d[k] = val
setitem(d, k, val) == [x \in (DOMAIN d) \cup {k} |-> IF x = k THEN val ELSE d[x]]

\* d.update(u)
update(d, u) == [x \in (DOMAIN d) \cup (DOMAIN u) |-> IF x \in DOMAIN u THEN u[x] ELSE d[x]]

\* d.setdefault(k, val)
setdefault(d, k, val) == IF k \in DOMAIN d THEN d ELSE setitem(d, k, val)

(* ------------------------------------------------------------ the steps *)
\* The assignments of a waiting step with a fault: the prompt is not written.
suspend_no_prompt(s, now, status, prompt) ==
    [s EXCEPT !.pause = TRUE, !.status = status, !.last_pause_time = now]

\* The four assignments every step makes when it has to wait for input.
suspend(s, now, status, prompt) ==
    [s EXCEPT !.pause = TRUE, !.status = status, !.last_pause_time = now,
              !.prompt = prompt]

\* validate_request with a fault: a valid answer is recorded even when the
\* decision is already there.
validate_request_overwrite(s, now) ==
    LET s1 == [s EXCEPT !.status = "in_progress",
                        !.start_time = IF s.start_time # NoTime THEN s.start_time ELSE now,
                        !.last_node = VALIDATE_REQUEST]
        ans == norm(s1.user_input)
    IN  IF truthy(s1.user_input) /\ ans \in {YES, NO}
          THEN [s1 EXCEPT !.decisions = setitem(@, "validate", ans),
                          !.user_input = None]
          ELSE IF "validate" \notin DOMAIN s1.decisions
                 THEN suspend(s1, now, "paused",
                              IF truthy(s1.user_input)
                                THEN "Invalid input. Validate request? (yes/no)"
                                ELSE "Validate request? (yes/no)")
                 ELSE s1

\* validate_request with a fault: the accepted answer is not consumed.
validate_request_keep_input(s, now) ==
    LET s1 == [s EXCEPT !.status = "in_progress",
                        !.start_time = IF s.start_time # NoTime THEN s.start_time ELSE now,
                        !.last_node = VALIDATE_REQUEST]
        ans == norm(s1.user_input)
    IN  IF "validate" \notin DOMAIN s1.decisions
          THEN IF truthy(s1.user_input)
                 THEN IF ~hashable(ans) THEN Raise("TypeError")
                      ELSE IF ans \in {YES, NO}
                        THEN [s1 EXCEPT !.decisions = setitem(@, "validate", ans)]
                        ELSE suspend(s1, now, "paused",
                                     "Invalid input. Validate request? (yes/no)")
                 ELSE suspend(s1, now, "paused", "Validate request? (yes/no)")
          ELSE s1

validate_request(s, now) ==
    LET s1 == [s EXCEPT !.status = "in_progress",
                        !.start_time = IF s.start_time # NoTime THEN s.start_time ELSE now,
                        !.last_node = VALIDATE_REQUEST]
        ans == norm(s1.user_input)
    IN  IF "validate" \notin DOMAIN s1.decisions
          THEN IF truthy(s1.user_input)
                 THEN IF ~hashable(ans) THEN Raise("TypeError")
                      ELSE IF ans \in {YES, NO}
                        THEN [s1 EXCEPT !.decisions = setitem(@, "validate", ans),
                                        !.user_input = None]
                        ELSE suspend(s1, now, "paused",
                                     "Invalid input. Validate request? (yes/no)")
                 ELSE suspend(s1, now, "paused", "Validate request? (yes/no)")
          ELSE s1

gather_claim_info(s, now) ==
    LET s1 == [s EXCEPT !.last_node = GATHER_CLAIM_INFO,
                        !.bag = setdefault(@, "claim_details", None)]
    IN  IF s1.bag["claim_details"] = None
          THEN IF truthy(s1.user_input)
                 THEN [s1 EXCEPT !.bag = setitem(@, "claim_details", s1.user_input),
                                 !.user_input = None]
                 ELSE suspend(s1, now, "paused", "Provide claim details (free text).")
          ELSE s1

identify_accounts_and_decide(s, now) ==
    LET s1 == [s EXCEPT !.last_node = IDENTIFY_AND_DECIDE]
        d == norm(s1.user_input)
    IN  IF "process_decision" \notin DOMAIN s1.decisions
          THEN IF truthy(s1.user_input)
                 THEN IF ~hashable(d) THEN Raise("TypeError")
                      ELSE IF d \in {CANCEL, HOLD, SUPPRESS}
                        THEN [s1 EXCEPT !.decisions = setitem(@, "process_decision", d),
                                        !.user_input = None]
                        ELSE suspend(s1, now, "paused",
                                     "Decision? Enter: cancel / hold / suppress")
                 ELSE suspend(s1, now, "paused",
                              "Decision? Enter: cancel / hold / suppress")
          ELSE s1

\* cancel_cwd_request with a fault: the instance is marked failed.
cancel_cwd_request_failed(s, now) ==
    [s EXCEPT !.last_node = CANCEL_CWD_REQUEST, !.status = "failed",
              !.end_time = now, !.result = "Workflow aborted."]

cancel_cwd_request(s, now) ==
    [s EXCEPT !.last_node = CANCEL_CWD_REQUEST, !.status = "aborted",
              !.end_time = now, !.result = "Workflow aborted."]

hold_request(s, now) ==
    LET s1 == [s EXCEPT !.last_node = HOLD_REQUEST]
        action == norm(s1.control_action)
    IN  IF action = RESUME
          THEN [s1 EXCEPT !.control_action = None, !.status = "in_progress",
                          !.pause = FALSE, !.prompt = NoText]
          ELSE IF action = ABORT
                 THEN [s1 EXCEPT !.control_action = None, !.status = "aborted",
                                 !.end_time = now, !.result = "Aborted from hold."]
                 ELSE suspend(s1, now, "hold",
                              "Workflow on hold. Command: resume / abort")

apply_temp_suppression(s, now) ==
    LET s1 == [s EXCEPT !.last_node = APPLY_TEMP_SUPPRESSION]
        ans == norm(s1.user_input)
    IN  IF "proceed_fulfill" \notin DOMAIN s1.decisions
          THEN IF truthy(s1.user_input)
                 THEN IF ~hashable(ans) THEN Raise("TypeError")
                      ELSE IF ans \in {YES, NO}
                        THEN [s1 EXCEPT !.decisions = setitem(@, "proceed_fulfill", ans),
                                        !.user_input = None]
                        ELSE suspend(s1, now, "paused", "Proceed to fulfill? (yes/no)")
                 ELSE suspend(s1, now, "paused", "Proceed to fulfill? (yes/no)")
          ELSE s1

fulfill_case_and_detect(s, now) ==
    [s EXCEPT !.last_node = FULFILL_AND_DETECT, !.status = "completed",
              !.end_time = now, !.result = "Fulfilled and detection complete."]

(* ---------------------------------------------------- conditional edges *)
route_validate(s) ==
    IF get(s.decisions, "validate") = YES THEN GATHER_CLAIM_INFO
    ELSE IF get(s.decisions, "validate") = NO THEN CANCEL_CWD_REQUEST
    ELSE END

route_gather(s) ==
    IF truthy(get(s.bag, "claim_details")) THEN IDENTIFY_AND_DECIDE ELSE END

route_identify(s) ==
    IF get(s.decisions, "process_decision") = CANCEL THEN CANCEL_CWD_REQUEST
    ELSE IF get(s.decisions, "process_decision") = HOLD THEN HOLD_REQUEST
    ELSE IF get(s.decisions, "process_decision") = SUPPRESS THEN APPLY_TEMP_SUPPRESSION
    ELSE END

\* Evaluated on the state hold_request returned, in which a recognised
\* control_action has already been cleared.
route_hold(s) ==
    IF norm(s.control_action) = RESUME THEN APPLY_TEMP_SUPPRESSION
    ELSE IF norm(s.control_action) = ABORT THEN CANCEL_CWD_REQUEST
    ELSE END

\* The Apply Temporary Suppression edge with a fault: any recorded answer goes
\* on to fulfilment.
route_apply_any_answer(s) ==
    IF "proceed_fulfill" \in DOMAIN s.decisions THEN FULFILL_AND_DETECT ELSE END

route_apply(s) ==
    IF get(s.decisions, "proceed_fulfill") = YES THEN FULFILL_AND_DETECT
    ELSE IF get(s.decisions, "proceed_fulfill") = NO THEN CANCEL_CWD_REQUEST
    ELSE END

\* g.add_node: the function registered under each node name.
node_fn(node, s, now) ==
    CASE node = VALIDATE_REQUEST -> validate_request(s, now)
      [] node = GATHER_CLAIM_INFO -> gather_claim_info(s, now)
      [] node = IDENTIFY_AND_DECIDE -> identify_accounts_and_decide(s, now)
      [] node = CANCEL_CWD_REQUEST -> cancel_cwd_request(s, now)
      [] node = HOLD_REQUEST -> hold_request(s, now)
      [] node = APPLY_TEMP_SUPPRESSION -> apply_temp_suppression(s, now)
      [] node = FULFILL_AND_DETECT -> fulfill_case_and_detect(s, now)

\* g.add_conditional_edges / g.add_edge: the successor of a node, chosen on
\* the state the node returned.
edge(node, s) ==
    CASE node = VALIDATE_REQUEST -> route_validate(s)
      [] node = GATHER_CLAIM_INFO -> route_gather(s)
      [] node = IDENTIFY_AND_DECIDE -> route_identify(s)
      [] node = HOLD_REQUEST -> route_hold(s)
      [] node = APPLY_TEMP_SUPPRESSION -> route_apply(s)
      [] node = FULFILL_AND_DETECT -> END
      [] node = CANCEL_CWD_REQUEST -> END

\* The graph run from node on state s: the state at END and the nodes
\* executed on the way, in order.  An exception raised by a node leaves the
\* graph at once.
RECURSIVE run_from(_, _, _)
run_from(node, s, now) ==
    LET s1 == node_fn(node, s, now)
        nxt == edge(node, s1)
        rest == run_from(nxt, s1, now)
    IN  IF is_exc(s1) THEN [out |-> s1, path |-> <<node>>]
        ELSE IF nxt = END THEN [out |-> s1, path |-> <<node>>]
        ELSE [out |-> rest.out, path |-> <<node>> \o rest.path]

\* The same run step by step: for every node executed, the state it received
\* and the state it returned.
RECURSIVE run_steps(_, _, _)
run_steps(node, s, now) ==
    LET s1 == node_fn(node, s, now)
        step == [node |-> node, pre |-> s, post |-> s1]
    IN  IF is_exc(s1) THEN <<step>>
        ELSE IF edge(node, s1) = END THEN <<step>>
        ELSE <<step>> \o run_steps(edge(node, s1), s1, now)

\* self.graph.invoke(d): one pass from the entry point to END.
invoke(d, now) == run_from(VALIDATE_REQUEST, d, now)

(* ------------------------------------------------- store and engine state *)
VARIABLES
    states,   \* InMemoryStore._states: instance_id -> stored state dict
    events,   \* InMemoryStore._events: instance_id -> list of audit events
    clock,    \* the wall clock now_iso() reads; it advances between calls
    last,     \* the most recent Engine call: its arguments and its outcome
    demo,     \* __main__: the number of calls of the demo on its first instance
              \* made so far, while these are the only calls made; else -1
    calls     \* resume calls in progress on other threads: the position and
              \* the local variables of each, and the bag objects the store
              \* no longer refers to

vars == <<states, events, clock, last, demo, calls>>

WORKFLOW_NAME == "ClaimWorkflow"

\* WorkflowState(...) as Engine.start constructs it: every other field at
\* its dataclass default.
WorkflowState(instance_id, customer_id, workflow_name, started_by, bag) ==
    [instance_id |-> instance_id, customer_id |-> customer_id,
     workflow_name |-> workflow_name, started_by |-> started_by,
     last_actor |-> started_by, status |-> "not_started", last_node |-> NoText,
     start_time |-> NoTime, last_pause_time |-> NoTime, last_resume_time |-> NoTime,
     end_time |-> NoTime, updated_at |-> NoTime, prompt |-> NoText, pause |-> FALSE,
     user_input |-> None, control_action |-> None, result |-> NoText,
     bag |-> bag, decisions |-> EmptyDict, steps_history |-> <<>>]

\* WorkflowState.to_dict(): the fields, with updated_at stamped.
to_dict(s, now) == [s EXCEPT !.updated_at = now]

\* append_event with a fault: the new event replaces the instance's list.
append_event_replace(ev, instance_id, event, node, status, actor, data, now) ==
    LET e == [ts |-> now, instance_id |-> instance_id, event |-> event, node |-> node,
              status |-> status, actor |-> actor, data |-> data]
    IN  [x \in (DOMAIN ev) \cup {instance_id} |->
            IF x = instance_id THEN <<e>> ELSE ev[x]]

\* InMemoryStore.append_event on the event map ev.
append_event(ev, instance_id, event, node, status, actor, data, now) ==
    LET e == [ts |-> now, instance_id |-> instance_id, event |-> event, node |-> node,
              status |-> status, actor |-> actor, data |-> data]
        old == IF instance_id \in DOMAIN ev THEN ev[instance_id] ELSE <<>>
    IN  [x \in (DOMAIN ev) \cup {instance_id} |->
            IF x = instance_id THEN Append(old, e) ELSE ev[x]]

\* upsert_state with a fault: the entry of an instance already stored is kept.
upsert_state_keep_existing(st, s, now) ==
    [x \in (DOMAIN st) \cup {s.instance_id} |->
        IF x = s.instance_id /\ x \notin DOMAIN st THEN to_dict(s, now) ELSE st[x]]

\* InMemoryStore.upsert_state on the state map st.
upsert_state(st, s, now) ==
    [x \in (DOMAIN st) \cup {s.instance_id} |->
        IF x = s.instance_id THEN to_dict(s, now) ELSE st[x]]

\* The values a caller may pass for each criterion of list_instances;
\* NoText is None (the criterion is not given).
CustomerFilters == {NoText, "C1"}
StatusFilters == {NoText, "paused"}
StartedByFilters == {NoText, "user_a"}
WorkflowFilters == {NoText, WORKFLOW_NAME, "OtherWorkflow", ""}

\* out.sort(key=updated_at, reverse=True) on the set S of matching states
\* (no two stored states carry the same updated_at).
RECURSIVE sort_by_updated_at_desc(_)
sort_by_updated_at_desc(S) ==
    IF S = {} THEN <<>>
    ELSE LET m == CHOOSE x \in S : \A y \in S : y.updated_at <= x.updated_at
         IN  <<m>> \o sort_by_updated_at_desc(S \ {m})

\* list_states with a fault: a criterion that is None is compared like any
\* other.
list_states_compare_none(st, filters) ==
    sort_by_updated_at_desc(
        {st[i] : i \in {j \in DOMAIN st :
                          \A k \in DOMAIN filters : st[j][k] = filters[k]}})

\* InMemoryStore.list_states(**filters) on the state map st: a criterion that
\* is None is skipped, any other must equal the stored field.
list_states(st, filters) ==
    sort_by_updated_at_desc(
        {st[i] : i \in {j \in DOMAIN st :
                          \A k \in DOMAIN filters :
                              filters[k] = NoText \/ st[j][k] = filters[k]}})

\* Engine.list_instances; "workflow_name or self.workflow_name" takes the
\* engine's name for None and for the empty string.
list_instances(customer_id, status, started_by, workflow_name) ==
    list_states(states,
                [customer_id |-> customer_id, status |-> status,
                 started_by |-> started_by,
                 workflow_name |-> IF workflow_name \in {NoText, ""}
                                     THEN WORKFLOW_NAME ELSE workflow_name])

\* _record_step_transition with a fault: the entry is appended without the
\* comparison with the last recorded node.
record_step_transition_always(s, actor, now) ==
    IF s.last_node # NoText
      THEN [s EXCEPT !.steps_history = Append(@, [ts |-> now, node |-> s.last_node,
                                                  status |-> s.status, actor |-> actor])]
      ELSE s

\* Engine._record_step_transition
record_step_transition(s, actor, now) ==
    LET last_step == IF s.steps_history # <<>>
                       THEN s.steps_history[Len(s.steps_history)].node ELSE NoText
    IN  IF s.last_node # NoText /\ s.last_node # last_step
          THEN [s EXCEPT
                  !.steps_history = Append(@, [ts |-> now, node |-> s.last_node,
                                               status |-> s.status, actor |-> actor]),
                  !.last_pause_time =
                      IF s.pause /\ s.status \in {"paused", "hold"} THEN now ELSE @,
                  !.end_time =
                      IF @ = NoTime /\ s.status \in {"completed", "aborted"} THEN now ELSE @,
                  !.start_time = IF @ = NoTime THEN now ELSE @]
          ELSE s

\* Engine._run, "Classify event"
classify(s) ==
    IF s.status = "completed" THEN "completed"
    ELSE IF s.status = "aborted" THEN "aborted"
    ELSE IF s.status = "hold" THEN "hold"
    ELSE IF s.pause THEN "paused"
    ELSE "progressed"

\* Engine._run up to "Persist": the state it is about to store and return,
\* with the nodes the graph executed; an exception of the graph is passed on.
run(state, actor, now) ==
    LET g == invoke(to_dict(state, now), now)
        new_state == [g.out EXCEPT !.last_actor = actor]
    IN  IF is_exc(g.out) THEN [new_state |-> g.out, path |-> g.path]
        ELSE [new_state |-> record_step_transition(new_state, actor, now),
              path |-> g.path]

\* Engine._run, "Persist": the outcome event, then the state.
run_events(ev, new_state, actor, now) ==
    append_event(ev, new_state.instance_id, classify(new_state), new_state.last_node,
                 new_state.status, actor,
                 [prompt |-> new_state.prompt, result |-> new_state.result], now)

\* uuid4 with a fault: every call returns the same identifier.
uuid4_constant == CHOOSE id \in InstanceIds : TRUE

\* uuid.uuid4(): an identifier no stored instance carries.
uuid4 == CHOOSE id \in InstanceIds : id \notin DOMAIN states

\* "Apply inputs" with a fault: user_input is assigned whether or not one was
\* passed.
apply_inputs_unconditional(s, actor, user_input, control_action, bag_updates, now) ==
    [s EXCEPT !.last_actor = actor,
              !.pause = FALSE,
              !.prompt = NoText,
              !.status = IF @ \in {"paused", "hold"} THEN "in_progress" ELSE @,
              !.last_resume_time = now,
              !.user_input = user_input,
              !.control_action = IF control_action # None THEN norm(control_action) ELSE @,
              !.bag = IF bag_updates # EmptyDict THEN update(@, bag_updates) ELSE @]

\* Engine.resume, "Apply inputs"
apply_inputs(s, actor, user_input, control_action, bag_updates, now) ==
    [s EXCEPT !.last_actor = actor,
              !.pause = FALSE,
              !.prompt = NoText,
              !.status = IF @ \in {"paused", "hold"} THEN "in_progress" ELSE @,
              !.last_resume_time = now,
              !.user_input = IF user_input # None THEN user_input ELSE @,
              !.control_action = IF control_action # None THEN norm(control_action) ELSE @,
              !.bag = IF bag_updates # EmptyDict THEN update(@, bag_updates) ELSE @]

\* The most recent Engine call: what the caller passed, the nodes the graph
\* executed for it, and the exception it raised ("" when it returned).
Call(op, instance_id, user_input, control_action, bag_updates, path, raised) ==
    [op |-> op, instance_id |-> instance_id, user_input |-> user_input,
     control_action |-> control_action, bag_updates |-> bag_updates,
     path |-> path, raised |-> raised]

\* __main__: the five resume calls the demo makes on its first instance.
demo_resumes ==
    << [user_input |-> YES, control_action |-> None],
       [user_input |-> CLAIM_TEXT, control_action |-> None],
       [user_input |-> HOLD, control_action |-> None],
       [user_input |-> None, control_action |-> RESUME],
       [user_input |-> YES, control_action |-> None] >>

\* The demo's position after a resume with these arguments.  (The demo names
\* a different actor on every call; no step reads the actor.)
demo_after_resume(instance_id, user_input, control_action, bag_updates) ==
    IF /\ demo >= 1 /\ demo <= Len(demo_resumes)
       /\ DOMAIN states = {instance_id}
       /\ user_input = demo_resumes[demo].user_input
       /\ control_action = demo_resumes[demo].control_action
       /\ bag_updates = EmptyDict
      THEN demo + 1 ELSE -1

\* The two callers whose resume calls run concurrently, each named by the
\* actor it passes.
Callers == {"user_b", "user_c"}

\* A caller that has not called yet.
IdleCaller ==
    [pc |-> "idle", instance_id |-> 0, user_input |-> None, control_action |-> None,
     bag_updates |-> EmptyDict, s |-> <<>>, ref |-> 0, new_state |-> <<>>,
     path |-> <<>>, raised |-> "", upserted |-> 0]

\* No call in progress.  gen counts the upserts made by concurrent calls: the
\* stored dict is a new object after each; old_bags[g + 1] is the bag object
\* of the dict that upsert g + 1 replaced.
NoCalls == [callers |-> [c \in Callers |-> IdleCaller], gen |-> 0, old_bags |-> <<>>]

Init ==
    /\ states = <<>>
    /\ events = <<>>
    /\ clock = 0
    /\ last = Call("none", 0, None, None, EmptyDict, <<>>, "")
    /\ demo = 0
    /\ calls = NoCalls

\* Engine.start(customer_id, started_by, bag); enabled while uuid4 has an id
\* of InstanceIds left to hand out.
start(customer_id, started_by, bag) ==
    LET now == clock + 1
        instance_id == uuid4
        s == WorkflowState(instance_id, customer_id, WORKFLOW_NAME, started_by,
                           IF bag # EmptyDict THEN bag ELSE EmptyDict)
        ev1 == append_event(events, instance_id, "created", NoText, s.status,
                            started_by, [customer_id |-> customer_id], now)
        r == run(s, started_by, now)
    IN  /\ InstanceIds \ DOMAIN states # {}
        /\ events' = run_events(ev1, r.new_state, started_by, now)
        /\ states' = upsert_state(states, r.new_state, now)
        /\ clock' = now
        /\ last' = Call("start", instance_id, None, None, bag, r.path, "")
        /\ demo' = IF demo = 0 /\ customer_id = "C1" /\ started_by = "user_a"
                       /\ bag = EmptyDict
                     THEN 1 ELSE -1
        /\ UNCHANGED calls

\* Engine.resume(instance_id, actor, user_input, control_action, bag_updates)
\* on an instance the store holds.  The resume_command event's data (the raw
\* arguments) is written and never read; it is kept out of the log here and
\* the arguments of the latest call are in last.
\* When the graph raises, the call ends after the resume_command event: no
\* outcome event is appended and no state is upserted.  s.bag is the bag
\* object of the stored dict (from_dict does not copy), so s.bag.update has
\* changed the stored bag by then.
resume(instance_id, actor, user_input, control_action, bag_updates) ==
    /\ instance_id \in DOMAIN states
    /\ LET now == clock + 1
           s == apply_inputs(states[instance_id], actor, user_input, control_action,
                             bag_updates, now)
           ev1 == append_event(events, instance_id, "resume_command", s.last_node,
                               s.status, actor, EmptyDict, now)
           r == run(s, actor, now)
       IN  /\ IF is_exc(r.new_state)
                THEN /\ events' = ev1
                     /\ states' = [states EXCEPT ![instance_id].bag = s.bag]
                     /\ last' = Call("resume", instance_id, user_input, control_action,
                                     bag_updates, r.path, r.new_state.exc)
                ELSE /\ events' = run_events(ev1, r.new_state, actor, now)
                     /\ states' = upsert_state(states, r.new_state, now)
                     /\ last' = Call("resume", instance_id, user_input, control_action,
                                     bag_updates, r.path, "")
           /\ clock' = now
           /\ demo' = demo_after_resume(instance_id, user_input, control_action,
                                        bag_updates)
           /\ UNCHANGED calls

\* The not-found path with a fault: the resume_command event is appended before
\* the check.
resume_not_found_logged(instance_id) ==
    /\ instance_id \notin DOMAIN states
    /\ events' = append_event(events, instance_id, "resume_command", NoText,
                              "not_started", "user_b", EmptyDict, clock + 1)
    /\ last' = Call("resume", instance_id, None, None, EmptyDict, <<>>, "ValueError")
    /\ demo' = -1
    /\ UNCHANGED <<states, clock, calls>>

\* Engine.resume on an instance_id the store does not hold: get_state returns
\* None and the call raises ValueError.  No other argument is read and
\* now_iso() is not called before the raise.
resume_not_found(instance_id) ==
    /\ instance_id \notin DOMAIN states
    /\ last' = Call("resume", instance_id, None, None, EmptyDict, <<>>, "ValueError")
    /\ demo' = -1
    /\ UNCHANGED <<states, events, clock, calls>>

Start == \E c \in Customers, u \in Users, b \in InitialBags : start(c, u, b)

\* The start call of the demo's first instance, with any initial bag.
StartC1 == \E b \in InitialBags : start("C1", "user_a", b)

\* Engine.resume on any instance; a call that carries bag updates carries no
\* control action (ResumeAnyInput combines all three arguments).
Resume ==
    \E i \in InstanceIds, a \in Actors, ui \in UserInputs, ca \in ControlActions,
       bu \in BagUpdates :
        /\ bu = EmptyDict \/ ca = None
        /\ resume(i, a, ui, ca, bu)

ResumeNotFound == \E i \in InstanceIds : resume_not_found(i)

\* One instance followed in depth: the store holds at most the instance the
\* first call started, and MaxCalls calls are made in all.
Next ==
    /\ clock < MaxCalls
    /\ \/ (states = <<>> /\ StartC1)
       \/ Resume

Spec == Init /\ [][Next]_vars

\* Engine.resume with the default bag_updates=None, on any stored instance.
ResumeStored ==
    \E i \in InstanceIds, a \in Actors, ui \in UserInputs, ca \in ControlActions :
        resume(i, a, ui, ca, EmptyDict)

\* Several instances side by side, MaxStoreCalls calls in all.
NextStore ==
    /\ clock < MaxStoreCalls
    /\ \/ Start
       \/ ResumeStored
       \/ ResumeNotFound

SpecStore == Init /\ [][NextStore]_vars

ResumeAnyInput ==
    \E i \in InstanceIds, a \in Actors, ui \in UserInputs \cup NonStrInputs,
       ca \in ControlActions, bu \in BagUpdates : resume(i, a, ui, ca, bu)

\* One instance, user_input drawn from str and non-str values, MaxInputCalls
\* calls in all.
NextInputs ==
    /\ clock < MaxInputCalls
    /\ \/ (states = <<>> /\ StartC1)
       \/ ResumeAnyInput

SpecInputs == Init /\ [][NextInputs]_vars

(* ----------------------------------- Engine.resume on two threads at once *)
\* Engine.resume and Engine._run statement by statement, for callers that
\* run on threads of their own with no lock.  One instance is stored.
RaceUserInputs == {None, YES, NO}

\* The content of the bag object caller c's state refers to: the stored
\* dict's bag while that dict is the one c loaded (from_dict copies nothing),
\* else the bag of the dict that has been replaced since.
bag_of(c) ==
    LET l == calls.callers[c]
    IN  IF l.ref = calls.gen THEN states[l.instance_id].bag
        ELSE calls.old_bags[l.ref + 1]

\* calls with caller c's local variables replaced by l.
with_caller(c, l) == [calls EXCEPT !.callers[c] = l]

\* s = self.store.get_state(instance_id), for an instance the store holds.
race_get_state(c, instance_id, user_input, control_action, bag_updates) ==
    /\ calls.callers[c].pc = "idle"
    /\ instance_id \in DOMAIN states
    /\ calls' = with_caller(c, [calls.callers[c] EXCEPT
                    !.pc = "loaded", !.instance_id = instance_id,
                    !.user_input = user_input, !.control_action = control_action,
                    !.bag_updates = bag_updates, !.s = states[instance_id],
                    !.ref = calls.gen])
    /\ demo' = -1
    /\ UNCHANGED <<states, events, clock, last>>

\* "Apply inputs": the assignments to s, and s.bag.update(bag_updates) on the
\* bag object s refers to.
race_apply_inputs(c) ==
    LET l == calls.callers[c]
        now == clock + 1
        s1 == apply_inputs([l.s EXCEPT !.bag = bag_of(c)], c, l.user_input,
                           l.control_action, l.bag_updates, now)
    IN  /\ l.pc = "loaded"
        /\ IF l.ref = calls.gen
             THEN /\ states' = [states EXCEPT ![l.instance_id].bag = s1.bag]
                  /\ calls' = with_caller(c, [l EXCEPT !.pc = "applied", !.s = s1])
             ELSE /\ states' = states
                  /\ calls' = [with_caller(c, [l EXCEPT !.pc = "applied", !.s = s1])
                                 EXCEPT !.old_bags[l.ref + 1] = s1.bag]
        /\ clock' = now
        /\ UNCHANGED <<events, last, demo>>

\* self.store.append_event(instance_id, "resume_command", ...)
race_append_resume_command(c) ==
    LET l == calls.callers[c]
        now == clock + 1
    IN  /\ l.pc = "applied"
        /\ events' = append_event(events, l.instance_id, "resume_command",
                                  l.s.last_node, l.s.status, c, EmptyDict, now)
        /\ calls' = with_caller(c, [l EXCEPT !.pc = "logged"])
        /\ clock' = now
        /\ UNCHANGED <<states, last, demo>>

\* _run: state.to_dict() copies the state, the bag object as it is now; the
\* graph runs on the copy and the step transition is recorded.
race_replay(c) ==
    LET l == calls.callers[c]
        now == clock + 1
        r == run([l.s EXCEPT !.bag = bag_of(c)], c, now)
    IN  /\ l.pc = "logged"
        /\ IF is_exc(r.new_state)
             THEN /\ calls' = with_caller(c, [l EXCEPT !.pc = "done", !.path = r.path,
                                                       !.raised = r.new_state.exc])
                  /\ last' = Call("resume", l.instance_id, l.user_input,
                                  l.control_action, l.bag_updates, r.path,
                                  r.new_state.exc)
             ELSE /\ calls' = with_caller(c, [l EXCEPT !.pc = "ran", !.path = r.path,
                                                       !.new_state = r.new_state])
                  /\ last' = last
        /\ clock' = now
        /\ UNCHANGED <<states, events, demo>>

\* _run, "Persist": self.store.append_event(new_state.instance_id, evt, ...)
race_append_outcome(c) ==
    LET l == calls.callers[c]
        now == clock + 1
    IN  /\ l.pc = "ran"
        /\ events' = run_events(events, l.new_state, c, now)
        /\ calls' = with_caller(c, [l EXCEPT !.pc = "appended"])
        /\ clock' = now
        /\ UNCHANGED <<states, last, demo>>

\* _run, "Persist": self.store.upsert_state(new_state), and the return.  The
\* stored dict is replaced by a new one; the old one's bag stays with the
\* callers that loaded it.
race_upsert_state(c) ==
    LET l == calls.callers[c]
        now == clock + 1
    IN  /\ l.pc = "appended"
        /\ states' = upsert_state(states, l.new_state, now)
        /\ calls' = [callers |-> [calls.callers EXCEPT
                                     ![c] = [l EXCEPT !.pc = "done",
                                                      !.upserted = calls.gen + 1]],
                     gen |-> calls.gen + 1,
                     old_bags |-> Append(calls.old_bags, states[l.instance_id].bag)]
        /\ last' = Call("resume", l.instance_id, l.user_input, l.control_action,
                        l.bag_updates, l.path, "")
        /\ clock' = now
        /\ UNCHANGED <<events, demo>>

RaceCall ==
    \E c \in Callers, i \in InstanceIds, ui \in RaceUserInputs, bu \in BagUpdates :
        race_get_state(c, i, ui, None, bu)

RaceStep ==
    \E c \in Callers :
        \/ race_apply_inputs(c)
        \/ race_append_resume_command(c)
        \/ race_replay(c)
        \/ race_append_outcome(c)
        \/ race_upsert_state(c)

\* One instance is started; then each caller makes one resume call on it, the
\* statements of the two calls interleaving in any order.
NextRace ==
    \/ (states = <<>> /\ StartC1)
    \/ RaceCall
    \/ RaceStep

SpecRace == Init /\ [][NextRace]_vars

(* ===================================================== claims C1 .. C10 *)
\* The result of the most recent call, if it returned.
Returned(op) == last.op = op /\ last.raised = ""
IsPrefix(a, b) == Len(a) <= Len(b) /\ SubSeq(b, 1, Len(a)) = a
Terminal == {"completed", "aborted"}

\* Scenario A: the status and node it lists after each of its six calls.
ScenarioA_expected ==
    << [status |-> "paused", last_node |-> VALIDATE_REQUEST],
       [status |-> "paused", last_node |-> GATHER_CLAIM_INFO],
       [status |-> "paused", last_node |-> IDENTIFY_AND_DECIDE],
       [status |-> "hold", last_node |-> HOLD_REQUEST],
       [status |-> "paused", last_node |-> APPLY_TEMP_SUPPRESSION],
       [status |-> "completed", last_node |-> FULFILL_AND_DETECT] >>

\* C1 (as claimed): after the first k calls of Scenario A on a fresh store
\* (start, then resume with "yes", the claim text, "hold", control_action
\* "resume", "yes") the instance is stored with the status and node the
\* scenario lists for call k, and with a prompt after the start call.
C1_ScenarioA ==
    \A k \in 1..6 :
        demo = k =>
            \A i \in DOMAIN states :
                /\ states[i].status = ScenarioA_expected[k].status
                /\ states[i].last_node = ScenarioA_expected[k].last_node
                /\ (k = 1 => states[i].prompt # NoText)

\* Rank of a status in the life of an instance.
status_rank(st) ==
    CASE st = "not_started" -> 0
      [] st = "in_progress" -> 1
      [] st \in {"paused", "hold"} -> 2
      [] st \in {"completed", "aborted", "failed"} -> 3

\* C2 (as claimed): from one stored status to the next the rank never drops,
\* except paused/hold -> in_progress, and a stored completed or aborted status
\* is never replaced by a different status.
C2_StatusMonotonic ==
    [][\A i \in DOMAIN states :
          LET before == states[i].status
              after == states'[i].status
          IN  /\ \/ status_rank(after) >= status_rank(before)
                 \/ (before \in {"paused", "hold"} /\ after = "in_progress")
              /\ (before \in Terminal => after = before)]_vars

\* C3 (as claimed): once an instance's end_time is set, no later run changes
\* it, and an instance whose end_time is set has a terminal status.
C3_EndTimeSetOnce ==
    [][\A i \in DOMAIN states :
          /\ states[i].end_time # NoTime => states'[i].end_time = states[i].end_time
          /\ states'[i].end_time # states[i].end_time => states'[i].status \in Terminal]_vars

\* The most recent call was a resume of instance i that passed no user_input,
\* no control_action and no bag_updates.
EmptyResume(c, i) ==
    /\ c.op = "resume" /\ c.raised = "" /\ c.instance_id = i
    /\ c.user_input = None /\ c.control_action = None /\ c.bag_updates = EmptyDict

\* C4: a resume without user_input, control_action and bag_updates on an
\* instance stored as paused or hold stores it again with the same status,
\* last_node, prompt, steps_history, decisions and bag.
C4_EmptyResumeIdempotent ==
    [][\A i \in DOMAIN states :
          (states[i].status \in {"paused", "hold"} /\ EmptyResume(last', i) /\ clock' # clock)
              => /\ states'[i].status = states[i].status
                 /\ states'[i].last_node = states[i].last_node
                 /\ states'[i].prompt = states[i].prompt
                 /\ states'[i].steps_history = states[i].steps_history
                 /\ states'[i].decisions = states[i].decisions
                 /\ states'[i].bag = states[i].bag]_vars

\* An empty resume has just been run on an instance that the run before it
\* left on hold, two steps past the entry node.
C4_Witness ==
    \E i \in DOMAIN states :
        /\ EmptyResume(last, i)
        /\ Len(events[i]) >= 4
        /\ events[i][Len(events[i]) - 2].event = "hold"
        /\ states[i].status = "hold"

\* C5: a key of decisions stays in decisions with the same value across
\* every call, whatever the call passes.
C5_DecisionsWriteOnce ==
    [][\A i \in DOMAIN states :
          \A k \in DOMAIN states[i].decisions :
              /\ k \in DOMAIN states'[i].decisions
              /\ states'[i].decisions[k] = states[i].decisions[k]]_vars

\* A resume passing "no" has run on an instance whose decisions already held
\* validate = yes and process_decision, and both are still there.
C5_Witness ==
    \E i \in DOMAIN states :
        /\ Returned("resume") /\ last.instance_id = i /\ last.user_input = NO
        /\ last.bag_updates # EmptyDict
        /\ get(states[i].decisions, "validate") = YES
        /\ "process_decision" \in DOMAIN states[i].decisions

\* C6 (as claimed): a resume whose control_action normalises to "abort", on an
\* instance stored with status hold, ends aborted at Cancel CWD Request with a
\* result.
C6_AbortFromHold ==
    [][\A i \in DOMAIN states :
          (/\ states[i].status = "hold"
           /\ last'.op = "resume" /\ last'.raised = "" /\ last'.instance_id = i
           /\ clock' # clock
           /\ norm(last'.control_action) = ABORT)
              => /\ states'[i].status = "aborted"
                 /\ states'[i].last_node = CANCEL_CWD_REQUEST
                 /\ states'[i].result # NoText]_vars

InPath(node) == \E n \in DOMAIN last.path : last.path[n] = node

\* The most recent run consulted an answer that sends the instance to
\* cancellation: it executed the step owning the answer, and the answer
\* (recorded by this run or by an earlier one) is validate = no,
\* process_decision = cancel or proceed_fulfill = no.
GovernedByCancel(i) ==
    /\ last.op \in {"start", "resume"} /\ last.raised = "" /\ last.instance_id = i
    /\ \/ InPath(VALIDATE_REQUEST) /\ get(states[i].decisions, "validate") = NO
       \/ InPath(IDENTIFY_AND_DECIDE)
            /\ get(states[i].decisions, "process_decision") = CANCEL
       \/ InPath(APPLY_TEMP_SUPPRESSION)
            /\ get(states[i].decisions, "proceed_fulfill") = NO

\* C7: a run governed by validate = no, process_decision = cancel or
\* proceed_fulfill = no ends at Cancel CWD Request, aborted, with pause false,
\* no prompt, a result and an end_time.
C7_CancelEndsAborted ==
    \A i \in DOMAIN states :
        GovernedByCancel(i) =>
            /\ states[i].last_node = CANCEL_CWD_REQUEST
            /\ states[i].status = "aborted"
            /\ states[i].pause = FALSE
            /\ states[i].prompt = NoText
            /\ states[i].result # NoText
            /\ states[i].end_time # NoTime

\* A resume has replayed an instance that was already aborted on
\* proceed_fulfill = no, through Apply Temporary Suppression.
C7_Witness ==
    \E i \in DOMAIN states :
        /\ GovernedByCancel(i) /\ last.op = "resume"
        /\ get(states[i].decisions, "proceed_fulfill") = NO
        /\ events[i][Len(events[i]) - 2].event = "aborted"

\* C8: start stores a new instance under an id no stored instance and no
\* event list carries: paused at Validate Request with pause set, the prompt
\* "Validate request? (yes/no)", no decisions and one steps_history entry;
\* its event list is [created (not_started, no node), paused].
C8_StartCreatesPaused ==
    [][(last'.op = "start" /\ clock' # clock) =>
          LET i == last'.instance_id
          IN  /\ i \notin DOMAIN states
              /\ i \notin DOMAIN events
              /\ i \in DOMAIN states'
              /\ states'[i].instance_id = i
              /\ states'[i].status = "paused"
              /\ states'[i].last_node = VALIDATE_REQUEST
              /\ states'[i].pause = TRUE
              /\ states'[i].prompt = "Validate request? (yes/no)"
              /\ states'[i].decisions = EmptyDict
              /\ Len(states'[i].steps_history) = 1
              /\ Len(events'[i]) = 2
              /\ events'[i][1].event = "created"
              /\ events'[i][1].status = "not_started"
              /\ events'[i][1].node = NoText
              /\ events'[i][2].event = "paused"]_vars

\* A second instance has just been started, with claim details in its bag.
C8_Witness ==
    /\ Returned("start")
    /\ Cardinality(DOMAIN states) = 2
    /\ truthy(get(last.bag_updates, "claim_details"))
    /\ \E j \in DOMAIN states : j # last.instance_id /\ Len(events[j]) >= 4

\* C9: a resume naming an instance_id the store does not hold raises the
\* not-found error and changes neither the stored states nor any event list.
C9_ResumeNotFound ==
    [][(last'.op = "resume" /\ last'.instance_id \notin DOMAIN states) =>
          /\ last'.raised = "ValueError"
          /\ states' = states
          /\ events' = events]_vars

\* A resume of an unknown id has failed while the store held an instance.
C9_Witness ==
    /\ last.op = "resume" /\ last.raised = "ValueError"
    /\ DOMAIN states # {}
    /\ last.instance_id \notin DOMAIN states
    /\ last.instance_id \notin DOMAIN events

NoRepeatedNode(h) == \A n \in 1..(Len(h) - 1) : h[n].node # h[n + 1].node

\* C10: steps_history only grows by appending, never has the same node in two
\* consecutive entries, and its last entry names the stored last_node.
C10_StepsHistory ==
    /\ [](\A i \in DOMAIN states :
            LET h == states[i].steps_history
            IN  /\ NoRepeatedNode(h)
                /\ h # <<>>
                /\ h[Len(h)].node = states[i].last_node)
    /\ [][\A i \in DOMAIN states :
            IsPrefix(states[i].steps_history, states'[i].steps_history)]_vars

\* An instance three steps into the graph has had a run that ended on the
\* node it was already on.
C10_Witness ==
    \E i \in DOMAIN states :
        /\ Len(states[i].steps_history) >= 3
        /\ Len(events[i]) >= 2 * Len(states[i].steps_history) + 2

(* ==================================================== claims C11 .. C20 *)
\* C11: in every stored state the prompt is non-null exactly when pause is
\* true, and pause is true exactly when the status is paused or hold.
C11_PromptPauseStatus ==
    \A i \in DOMAIN states :
        /\ (states[i].prompt # NoText) <=> states[i].pause
        /\ states[i].pause <=> (states[i].status \in {"paused", "hold"})

\* A resume has stored a state that is neither paused nor on hold, with pause
\* false and no prompt, and an earlier call had stored it waiting.
C11_Witness ==
    /\ Returned("resume")
    /\ LET s == states[last.instance_id]
       IN  /\ s.status \notin {"paused", "hold"}
           /\ ~s.pause /\ s.prompt = NoText
           /\ s.last_pause_time # NoTime

\* InMemoryStore.get_events: the list of the instance, [] when it has none.
get_events(ev, i) == IF i \in DOMAIN ev THEN ev[i] ELSE <<>>
OutcomeKinds == {"completed", "aborted", "hold", "paused", "progressed"}

\* C12: the audit log is append-only.  Every start or resume that returns
\* extends the event list of its instance by exactly two events, created or
\* resume_command first and one run-outcome event second; the events the list
\* held before are an unchanged prefix; and no call changes the event list of
\* any other instance.
C12_AuditAppendOnly ==
    [][clock' # clock =>
         LET i == last'.instance_id
             old == get_events(events, i)
             new == get_events(events', i)
         IN  /\ IsPrefix(old, new)
             /\ \A j \in InstanceIds \ {i} :
                    /\ j \in DOMAIN events' <=> j \in DOMAIN events
                    /\ get_events(events', j) = get_events(events, j)
             /\ last'.raised = "" =>
                    /\ Len(new) = Len(old) + 2
                    /\ new[Len(old) + 1].event =
                           (IF last'.op = "start" THEN "created" ELSE "resume_command")
                    /\ new[Len(old) + 2].event \in OutcomeKinds]_vars

\* A resume has returned on an instance that already had events, while
\* another instance has events of its own.
C12_Witness ==
    /\ Returned("resume")
    /\ Len(get_events(events, last.instance_id)) >= 4
    /\ \E j \in DOMAIN events : j # last.instance_id /\ Len(events[j]) >= 2

\* The elements of a list.
Range(seq) == {seq[n] : n \in DOMAIN seq}

\* The stored instances that equal every criterion that is not None, the
\* workflow name taken as the engine's when it is None.
Matching(customer_id, status, started_by, workflow_name) ==
    {states[i] : i \in {j \in DOMAIN states :
        /\ customer_id = NoText \/ states[j].customer_id = customer_id
        /\ status = NoText \/ states[j].status = status
        /\ started_by = NoText \/ states[j].started_by = started_by
        /\ states[j].workflow_name =
               (IF workflow_name = NoText THEN WORKFLOW_NAME ELSE workflow_name)}}

\* C13: list(status="paused") returns exactly the stored instances whose
\* status is paused; in general list returns exactly the stored instances that
\* match every non-null criterion by equality, the workflow name defaulting to
\* the engine's configured name.
C13_ListFilters ==
    /\ Range(list_instances(NoText, "paused", NoText, NoText)) =
           {states[i] : i \in {j \in DOMAIN states : states[j].status = "paused"}}
    /\ \A c \in CustomerFilters, st \in StatusFilters, sb \in StartedByFilters,
          wf \in WorkflowFilters :
           LET res == list_instances(c, st, sb, wf)
           IN  /\ Range(res) = Matching(c, st, sb, wf)
               /\ Len(res) = Cardinality(Matching(c, st, sb, wf))

\* The stored instances that equal every criterion given, where a workflow
\* name that is None or empty stands for the engine's.
MatchingGiven(customer_id, status, started_by, workflow_name) ==
    Matching(customer_id, status, started_by,
             IF workflow_name = "" THEN NoText ELSE workflow_name)

\* C13 as amended: list returns, each once, exactly the stored instances that
\* equal every criterion that is not None, where a workflow name that is None
\* or the empty string is replaced by the engine's configured name.
C13_ListFiltersAmended ==
    \A c \in CustomerFilters, st \in StatusFilters, sb \in StartedByFilters,
       wf \in WorkflowFilters :
        LET res == list_instances(c, st, sb, wf)
        IN  /\ Range(res) = MatchingGiven(c, st, sb, wf)
            /\ Len(res) = Cardinality(Range(res))

\* Two instances are stored and list(status="paused") returns one of them.
C13_Witness ==
    /\ Cardinality(DOMAIN states) = 2
    /\ Len(list_instances(NoText, "paused", NoText, NoText)) = 1

\* The steps that end a run by themselves.
TerminalSteps == {CANCEL_CWD_REQUEST, FULFILL_AND_DETECT}

\* C14: routing and pausing are in lock-step.  A run halts at a non-terminal
\* step only when that step has just set pause, so every run ends either
\* terminal (completed or aborted) or suspended with pause true and a prompt;
\* no run ends, and no state is stored, with status in_progress.
C14_LockStep ==
    \A i \in DOMAIN states :
        LET s == states[i]
        IN  /\ s.status # "in_progress"
            /\ \/ s.status \in Terminal
               \/ s.pause /\ s.prompt # NoText
            /\ s.last_node \notin TerminalSteps => s.pause

\* The state Engine.resume hands to _run in the step that made the latest
\* call: the stored state with the call's inputs applied.
HandedToRun ==
    apply_inputs(states[last'.instance_id], CHOOSE a \in Actors : TRUE,
                 last'.user_input, last'.control_action, last'.bag_updates, clock')

\* C15: in the state handed to any run at most one of the pending user input
\* and the control action is non-null, whatever resume calls were made and
\* whatever arguments they carried.
C15_SingleMailbox ==
    [][(clock' # clock /\ last'.op = "resume") =>
         (HandedToRun.user_input = None \/ HandedToRun.control_action = None)]_vars

HOLD_PROMPT == "Workflow on hold. Command: resume / abort"

\* C16: the run in which process_decision = hold is first recorded ends
\* suspended at Hold Request with status hold, pause true and the resume/abort
\* prompt, whatever inputs (control actions included) that call or earlier
\* calls supplied.
C16_HoldRunEndsOnHold ==
    [][LET i == last'.instance_id
       IN  (/\ clock' # clock /\ last'.raised = ""
            /\ i \in DOMAIN states
            /\ "process_decision" \notin DOMAIN states[i].decisions
            /\ get(states'[i].decisions, "process_decision") = HOLD)
           => /\ states'[i].last_node = HOLD_REQUEST
              /\ states'[i].status = "hold"
              /\ states'[i].pause
              /\ states'[i].prompt = HOLD_PROMPT]_vars

\* The steps that ask for a decision, the key each records and its vocabulary.
DecisionSteps == {VALIDATE_REQUEST, IDENTIFY_AND_DECIDE, APPLY_TEMP_SUPPRESSION}
decision_key(node) ==
    CASE node = VALIDATE_REQUEST -> "validate"
      [] node = IDENTIFY_AND_DECIDE -> "process_decision"
      [] node = APPLY_TEMP_SUPPRESSION -> "proceed_fulfill"
vocabulary(node) ==
    CASE node = VALIDATE_REQUEST -> {YES, NO}
      [] node = IDENTIFY_AND_DECIDE -> {CANCEL, HOLD, SUPPRESS}
      [] node = APPLY_TEMP_SUPPRESSION -> {YES, NO}

\* Instance i is stored waiting at a decision step with an empty mailbox, and
\* the call made in this step is a resume of i that carries a user_input
\* (truthy) and no bag_updates: the input is this call's answer to that step.
AnswersDecisionStep(i) ==
    /\ clock' # clock /\ last'.op = "resume" /\ last'.instance_id = i
    /\ i \in DOMAIN states
    /\ states[i].status = "paused" /\ states[i].last_node \in DecisionSteps
    /\ states[i].user_input = None
    /\ truthy(last'.user_input) /\ last'.bag_updates = EmptyDict

\* C17: an invalid decision value is absorbed, never an error.  A resume
\* whose user_input, case-folded and trimmed, is outside the vocabulary of the
\* decision step it answers (a value that is not a str included) raises no
\* error, leaves decisions unchanged and ends paused at the same step with a
\* prompt; an input that is a vocabulary word up to letter case and
\* surrounding whitespace is recorded as that word.
C17_InvalidInputAbsorbed ==
    [][\A i \in InstanceIds :
         AnswersDecisionStep(i) =>
            LET node == states[i].last_node
                word == norm(last'.user_input)
            IN  /\ last'.raised = ""
                /\ IF word \in vocabulary(node)
                     THEN get(states'[i].decisions, decision_key(node)) = word
                     ELSE /\ states'[i].decisions = states[i].decisions
                          /\ states'[i].status = "paused"
                          /\ states'[i].last_node = node
                          /\ states'[i].pause /\ states'[i].prompt # NoText]_vars

\* Both concurrent resume calls have returned.
BothReturned ==
    \A c \in Callers : calls.callers[c].pc = "done" /\ calls.callers[c].raised = ""

\* The caller whose upsert came second, and the other one.
LaterCaller == CHOOSE c \in Callers : calls.callers[c].upserted = calls.gen
EarlierCaller == CHOOSE c \in Callers : c # LaterCaller

\* The events of list evs that caller c appended, in order.
EventsBy(evs, c) == SelectSeq(evs, LAMBDA e : e.actor = c)

\* C18: with no per-instance lock, when the statements of two resume calls on
\* one instance interleave, the stored state after both have returned is the
\* state the later upsert wrote and nothing else, whatever the other call
\* returned to its caller, and the log holds the resume_command event and the
\* outcome event of both calls.
C18_LaterUpsertWins ==
    BothReturned =>
        LET later == calls.callers[LaterCaller]
            i == later.instance_id
        IN  /\ [states[i] EXCEPT !.updated_at = NoTime] =
                   [later.new_state EXCEPT !.updated_at = NoTime]
            /\ \A c \in Callers :
                   LET mine == EventsBy(events[i], c)
                       ret == calls.callers[c].new_state
                   IN  /\ Len(mine) = 2
                       /\ mine[1].event = "resume_command"
                       /\ mine[2].event = classify(ret)
                       /\ mine[2].node = ret.last_node
                       /\ mine[2].status = ret.status
            /\ Len(events[i]) = 2 + 2 * Cardinality(Callers)

\* Both calls loaded the same stored dict, both have returned, and the call
\* whose upsert came first returned a decision and a steps_history that the
\* stored state does not have, while its outcome event is in the log.
C18_Witness ==
    /\ BothReturned
    /\ \A c \in Callers : calls.callers[c].ref = 0
    /\ LET ret == calls.callers[EarlierCaller].new_state
           s == states[ret.instance_id]
       IN  /\ \E k \in DOMAIN ret.decisions :
                  k \notin DOMAIN s.decisions \/ s.decisions[k] # ret.decisions[k]
           /\ ~IsPrefix(ret.steps_history, s.steps_history)
           /\ \E n \in DOMAIN events[ret.instance_id] :
                  /\ events[ret.instance_id][n].actor = EarlierCaller
                  /\ events[ret.instance_id][n].node = ret.last_node
                  /\ events[ret.instance_id][n].node # s.last_node

\* The last event of a non-empty list.
Last(seq) == seq[Len(seq)]

\* The first rule that matches state s, in the order completed, aborted,
\* hold, paused (pause true), else progressed.
FirstMatchingRule(s) ==
    LET rules == << [kind |-> "completed", holds |-> s.status = "completed"],
                    [kind |-> "aborted", holds |-> s.status = "aborted"],
                    [kind |-> "hold", holds |-> s.status = "hold"],
                    [kind |-> "paused", holds |-> s.pause],
                    [kind |-> "progressed", holds |-> TRUE] >>
        first == CHOOSE n \in DOMAIN rules :
                     rules[n].holds /\ \A m \in 1..(n - 1) : ~rules[m].holds
    IN  rules[first].kind

\* C19: the outcome event a run appends has the kind of the first matching
\* rule in the order completed, aborted, hold, paused (pause true), else
\* progressed, evaluated on the state the run produced; and, calls being made
\* one after the other, after every call the node and status of the
\* instance's last audit event equal last_node and status of its stored state.
C19_OutcomeEvent ==
    /\ \A i \in DOMAIN states :
          (last.instance_id = i /\ last.raised = "") =>
              Last(events[i]).event = FirstMatchingRule(states[i])
    /\ \A i \in DOMAIN states :
          /\ Last(events[i]).node = states[i].last_node
          /\ Last(events[i]).status = states[i].status

\* The targets each node's edges name (END left out).
Successors(node) ==
    CASE node = VALIDATE_REQUEST -> {GATHER_CLAIM_INFO, CANCEL_CWD_REQUEST}
      [] node = GATHER_CLAIM_INFO -> {IDENTIFY_AND_DECIDE}
      [] node = IDENTIFY_AND_DECIDE ->
             {CANCEL_CWD_REQUEST, HOLD_REQUEST, APPLY_TEMP_SUPPRESSION}
      [] node = HOLD_REQUEST -> {APPLY_TEMP_SUPPRESSION, CANCEL_CWD_REQUEST}
      [] node = APPLY_TEMP_SUPPRESSION -> {FULFILL_AND_DETECT, CANCEL_CWD_REQUEST}
      [] node = CANCEL_CWD_REQUEST -> {}
      [] node = FULFILL_AND_DETECT -> {}

\* The node itself and every node reachable from it in the graph.
RECURSIVE ReachableFrom(_)
ReachableFrom(node) ==
    {node} \cup UNION {ReachableFrom(m) : m \in Successors(node)}

\* C20: replay never moves an instance backwards.  Whatever user_input,
\* control_action and bag_updates the resume calls carry, the step at which a
\* run halts is the step at which the previous run of the instance halted, or
\* a step reachable from it in the graph.
C20_NeverBackwards ==
    [][\A i \in DOMAIN states :
         (clock' # clock /\ last'.raised = "" /\ last'.instance_id = i) =>
             states'[i].last_node \in ReachableFrom(states[i].last_node)]_vars

(* ==================================================== claims C21 .. C22 *)
\* The step recorded an answer: a decision key, or the claim details.
Recorded(step) ==
    \/ step.post.decisions # step.pre.decisions
    \/ get(step.post.bag, "claim_details") # get(step.pre.bag, "claim_details")

\* The steps of the run of the resume call made in this step.
RunSteps == run_steps(VALIDATE_REQUEST, to_dict(HandedToRun, clock'), clock')

\* C21: a run consumes the pending user input at most once.  In a single run
\* at most one step records an answer (a decision key or the claim details);
\* that step had a user input and clears it, so every later step of the run
\* sees none; and a step that records nothing leaves the user input as it
\* found it.
C21_InputConsumedOnce ==
    [][(clock' # clock /\ last'.op = "resume") =>
         \A tr \in {RunSteps} :
             LET done == {k \in DOMAIN tr : ~is_exc(tr[k].post)}
             IN  /\ [k \in DOMAIN tr |-> tr[k].node] = last'.path
                 /\ Cardinality({k \in done : Recorded(tr[k])}) <= 1
                 /\ \A k \in done :
                        IF Recorded(tr[k])
                          THEN /\ truthy(tr[k].pre.user_input)
                               /\ tr[k].post.user_input = None
                               /\ \A j \in DOMAIN tr :
                                      j > k => tr[j].pre.user_input = None
                          ELSE tr[k].post.user_input = tr[k].pre.user_input]_vars

\* A resume whose answer Validate Request accepted has gone on through later
\* steps, which found the mailbox empty and paused.
C21_Witness ==
    /\ Returned("resume")
    /\ last.user_input = YES
    /\ Len(last.path) >= 3
    /\ LET s == states[last.instance_id]
       IN  /\ s.status = "paused" /\ s.user_input = None
           /\ s.last_node = IDENTIFY_AND_DECIDE
           /\ DOMAIN s.decisions = {"validate"}

\* The statuses a stored state may carry.
StoredStatuses == {"in_progress", "paused", "hold", "completed", "aborted"}

\* C22: no step and no control path produces status failed.  Every stored
\* state carries one of in_progress, paused, hold, completed, aborted; every
\* audit event carries one of these or not_started, and an event that carries
\* not_started is a created event.
C22_NoFailedStatus ==
    /\ \A i \in DOMAIN states : states[i].status \in StoredStatuses
    /\ \A i \in DOMAIN events :
           \A k \in DOMAIN events[i] :
               /\ events[i][k].status \in StoredStatuses \cup {"not_started"}
               /\ events[i][k].status = "not_started" => events[i][k].event = "created"

\* An instance created with status not_started has been resumed with an abort
\* and is stored aborted at Cancel CWD Request.
C22_Witness ==
    \E i \in DOMAIN states :
        /\ states[i].status = "aborted"
        /\ states[i].last_node = CANCEL_CWD_REQUEST
        /\ events[i][1].event = "created"
        /\ events[i][1].status = "not_started"
        /\ \E k \in DOMAIN events[i] :
               /\ events[i][k].event = "resume_command"
               /\ events[i][k].status = "in_progress"
====
